---- MODULE Spec2Model ----
(***************************************************************************)
(* Model of the write-ahead log of mineral/src/wal.rs: the frame codec     *)
(* (Entry), the segment (Wlog) and the log orchestrator (Wal).             *)
(*                                                                         *)
(* Files are sequences of bytes.  TLC's integers are 32 bits wide, so the  *)
(* byte is scaled from 256 values to ByteMod values and the page from      *)
(* 32768 bytes to PageSize bytes; every layout width of the source (7-byte *)
(* header = 4 + 2 + 1, 8-byte version suffix) is kept, and the ratio       *)
(* u16 range / page size (2) is kept as well.                              *)
(***************************************************************************)
EXTENDS Integers, Sequences, FiniteSets, TLC

\* ---- bounds of the model -------------------------------------------------
\* ByteMod, PageSize, FileMaxSize and RotationLiveTime scale values of the
\* source: a byte has 256 values, Wlog.page_size is 32768, Wal.file_max_size
\* is 4294967295 and Wal.rotation_live_time is 1800 seconds.
ByteMod == 8
PageSize == 32
FileMaxSize == 40
RotationLiveTime == 1
\* the clock runs from 0 to MaxTime
MaxTime == 4
\* appends (successful, failed or torn) and crashes in one behaviour of Spec
MaxAppends == 3
MaxCrashes == 1
\* an appended record has at most MaxData bytes, a decoded payload MaxPayload
MaxData == 1
MaxPayload == 3
\* appends in one behaviour of SpecDeep
MaxDeepAppends == 5
\* callers of Wal::append in SpecLock
MaxCallers == 2
\* appends to the segment in one behaviour of SpecWlog
MaxWlogAppends == 3

\* ---- constants of the source ---------------------------------------------
HEADER_LEN == 7
STYPE_FULL == 4
STYPE_FIRST == 1
STYPE_MIDDLE == 2
STYPE_LAST == 3
VERSION_LEN == 8

U16Mod == ByteMod * ByteMod
U32Mod == U16Mod * U16Mod
U64Mod == U32Mod * U32Mod

Byte == 0 .. (ByteMod - 1)

VARIABLES
    files,             \* the directory: segment id -> bytes of file @wal-<id>
    seq,               \* Wal.seq
    wlog,              \* Wal.wlog: [version, file_size]
    log_version_list,  \* Wal.log_version_list
    rotation_time,     \* Wal.rotation_time
    now,               \* SystemTime::now(), in seconds
    alive,             \* FALSE once the process has panicked or crashed
    committed,         \* records written by successful appends since the log was empty
    clean,             \* TRUE while only successful appends happened since the log was empty
    closed,            \* ids of the segments that were rotated away by this directory's logs
    nops,              \* number of appends made so far (bounds the model)
    ncrash,            \* number of crashes so far (bounds the model)
    failed,            \* the largest version a failed append consumed: since this Wal was
                       \* constructed (.instance), and since then or truncate_all (.epoch)
    last,              \* what the last operation did (its inputs and results)
    active_since,      \* the time at which the active segment became active
    scan,              \* the locals of a Wlog::read_all in progress
    pc,                \* where each caller of Wal::append stands
    wlock              \* the holder of Wal.wlock (0 when it is free)

vars == << files, seq, wlog, log_version_list, rotation_time, now, alive,
           committed, clean, closed, nops, ncrash, failed, last,
           active_since, scan, pc, wlock >>

\* the state of the processes that the operations of the log leave alone
procs == << scan, pc, wlock >>

\* ---- integer <-> bytes (crate::cvt, u*::to_be_bytes) ----------------------
RECURSIVE to_be_bytes(_, _)
to_be_bytes(n, w) ==
    IF w = 0 THEN << >> ELSE Append(to_be_bytes(n \div ByteMod, w - 1), n % ByteMod)

RECURSIVE case_buf_to_uint(_)
case_buf_to_uint(buf) ==
    IF buf = << >> THEN 0
    ELSE case_buf_to_uint(SubSeq(buf, 1, Len(buf) - 1)) * ByteMod + buf[Len(buf)]

RECURSIVE case_u64_to_buf_w(_, _)
case_u64_to_buf_w(n, w) ==
    IF w = 0 THEN << >> ELSE << n % ByteMod >> \o case_u64_to_buf_w(n \div ByteMod, w - 1)

case_u64_to_buf(n) == case_u64_to_buf_w(n, VERSION_LEN)

RECURSIVE case_buf_to_u64(_)
case_buf_to_u64(buf) ==
    IF buf = << >> THEN 0 ELSE Head(buf) + ByteMod * case_buf_to_u64(Tail(buf))

\* ---- Entry: the frame codec ----------------------------------------------
RECURSIVE Hasher(_, _)
Hasher(h, buf) ==
    IF buf = << >> THEN h
    ELSE Hasher((h * 31 + Head(buf) + 1) % U32Mod, Tail(buf))

checksum(buf) == Hasher(0, buf)

Entry_new(stype, payload) ==
    [ header  |-> [ crc32 |-> checksum(payload),
                    dlen  |-> Len(payload) % U16Mod,
                    stype |-> stype ],
      payload |-> payload ]

to_header_buf(e) ==
    to_be_bytes(e.header.crc32, 4) \o to_be_bytes(e.header.dlen, 2) \o << e.header.stype >>

Entry_encode(e) == to_header_buf(e) \o e.payload

to_header(buf) ==
    [ crc32 |-> case_buf_to_uint(SubSeq(buf, 1, 4)),
      dlen  |-> case_buf_to_uint(SubSeq(buf, 5, 6)),
      stype |-> buf[7] ]

\* Entry::decode.  The result is "panic" when a slice is out of range or the
\* u16 addition overflows (either build aborts: the wrapped end offset is
\* smaller than HEADER_LEN), "Err" for Error::InvalidWalData, "Ok" otherwise.
Entry_decode(buf) ==
    IF Len(buf) < HEADER_LEN THEN [ res |-> "panic" ]
    ELSE LET header == to_header(buf)
             data_end_offset == header.dlen + HEADER_LEN
         IN  IF data_end_offset >= U16Mod \/ data_end_offset > Len(buf)
             THEN [ res |-> "panic" ]
             ELSE LET payload == SubSeq(buf, HEADER_LEN + 1, data_end_offset)
                  IN  IF checksum(payload) = header.crc32
                      THEN [ res |-> "Err" ]
                      ELSE [ res |-> "Ok", header |-> header, payload |-> payload ]

\* ---- Wlog::append: the fragmentation loop --------------------------------
\* a loop whose next fragment starts one byte early
RECURSIVE Fragment_overlap(_, _, _)
Fragment_overlap(active_size, flate_buf, stype) ==
    LET left_page_size == PageSize - (active_size % PageSize)
        data_len == Len(flate_buf)
    IN  IF left_page_size > data_len
        THEN << Entry_new(IF stype = 0 THEN STYPE_FULL ELSE STYPE_LAST, flate_buf) >>
        ELSE LET st == IF stype = 0 THEN STYPE_FIRST ELSE STYPE_MIDDLE
             IN  << Entry_new(st, SubSeq(flate_buf, 1, left_page_size)) >>
                 \o Fragment_overlap(active_size + left_page_size,
                                     SubSeq(flate_buf, left_page_size, data_len - 1), st)

\* a loop that forgets the kind of the fragment it has just emitted
RECURSIVE Fragment_forgets(_, _, _)
Fragment_forgets(active_size, flate_buf, stype) ==
    LET left_page_size == PageSize - (active_size % PageSize)
        data_len == Len(flate_buf)
    IN  IF left_page_size > data_len
        THEN << Entry_new(IF stype = 0 THEN STYPE_FULL ELSE STYPE_LAST, flate_buf) >>
        ELSE LET st == IF stype = 0 THEN STYPE_FIRST ELSE STYPE_MIDDLE
             IN  << Entry_new(st, SubSeq(flate_buf, 1, left_page_size)) >>
                 \o Fragment_forgets(active_size + left_page_size,
                                     SubSeq(flate_buf, left_page_size + 1, data_len), stype)

\* The entries the loop of Wlog::append emits, in emission order.  The
\* source's active_size is a u32; the sizes of the model stay below U32Mod,
\* so its additions are exact.
RECURSIVE Fragment(_, _, _)
Fragment(active_size, flate_buf, stype) ==
    LET left_page_size == PageSize - (active_size % PageSize)
        data_len == Len(flate_buf)
    IN  IF left_page_size > data_len
        THEN << Entry_new(IF stype = 0 THEN STYPE_FULL ELSE STYPE_LAST, flate_buf) >>
        ELSE LET st == IF stype = 0 THEN STYPE_FIRST ELSE STYPE_MIDDLE
             IN  << Entry_new(st, SubSeq(flate_buf, 1, left_page_size)) >>
                 \o Fragment(active_size + left_page_size,
                             SubSeq(flate_buf, left_page_size + 1, data_len), st)

RECURSIVE EncodeAll(_)
EncodeAll(entries) ==
    IF entries = << >> THEN << >>
    ELSE Entry_encode(Head(entries)) \o EncodeAll(Tail(entries))

\* entry_bufs of Wlog::append for a segment whose tracked size is file_size
entry_bufs(file_size, buf) == EncodeAll(Fragment(file_size, buf, 0))

\* ---- the storage collaborator (crate::state) -----------------------------
\* state::new(path) followed by meta(): opening a segment creates its file
\* when it does not exist.
state_new(fs, id) == IF id \in DOMAIN fs THEN fs ELSE (id :> << >>) @@ fs

\* State::get(pos, buf): the bytes read into a page-sized buffer
state_get(file, pos) ==
    IF pos >= Len(file) THEN << >>
    ELSE SubSeq(file, pos + 1, IF pos + PageSize < Len(file) THEN pos + PageSize ELSE Len(file))

\* State::get_from_end(-8, buf): the bytes read from the tail of the file
state_get_from_end(file) ==
    IF Len(file) >= VERSION_LEN THEN SubSeq(file, Len(file) - VERSION_LEN + 1, Len(file))
    ELSE file

\* State::remove()
state_remove(fs, id) == [ i \in (DOMAIN fs) \ { id } |-> fs[i] ]

\* ---- Wlog: one segment ---------------------------------------------------
Wlog_new(fs, id) == [ version |-> id, file_size |-> Len(state_new(fs, id)[id]) ]

Zeros(n) == [ i \in 1 .. n |-> 0 ]

\* Wlog::handle_page: the loop over the frames of the bytes at hand.
\*   remain_buf   the working copy that is parsed
\*   page_buf     the caller's left_buf, drained when a record completes
\*   chunk_datas  the reconstruction buffer
\*   pcs          page_chunk_size
\*   out          the handler's invocations so far
\* A slice, drain or subtraction out of range panics.
RECURSIVE handle_page_loop(_, _, _, _, _)
handle_page_loop(remain_buf, page_buf, chunk_datas, pcs, out) ==
    IF Len(remain_buf) <= HEADER_LEN
    THEN [ panic |-> FALSE, left_buf |-> page_buf, out |-> out ]
    ELSE
      LET header == to_header(remain_buf)
          chunk_size == HEADER_LEN + header.dlen
      IN
      IF chunk_size >= U16Mod \/ chunk_size > Len(remain_buf)
      THEN [ panic |-> TRUE, left_buf |-> page_buf, out |-> out ]
      ELSE
        LET chunk_data == SubSeq(remain_buf, HEADER_LEN + 1, chunk_size)
            pcs2 == pcs + chunk_size
        IN
        IF checksum(chunk_data) # header.crc32
        THEN [ panic |-> FALSE, left_buf |-> page_buf, out |-> out ]
        ELSE
          LET remain2 == SubSeq(remain_buf, chunk_size + 1, Len(remain_buf))
              datas2 == chunk_datas \o chunk_data
          IN
          IF header.stype = STYPE_FULL \/ header.stype = STYPE_LAST
          THEN
            IF pcs2 > Len(page_buf) \/ Len(datas2) < VERSION_LEN
            THEN [ panic |-> TRUE, left_buf |-> page_buf, out |-> out ]
            ELSE
              LET version_pos == Len(datas2) - VERSION_LEN
                  rec == [ data    |-> SubSeq(datas2, 1, version_pos),
                           version |-> case_buf_to_u64(SubSeq(datas2, version_pos + 1, Len(datas2))) ]
              IN  handle_page_loop(remain2, SubSeq(page_buf, pcs2 + 1, Len(page_buf)),
                                   << >>, pcs2, Append(out, rec))
          ELSE handle_page_loop(remain2, page_buf, datas2, pcs2, out)

handle_page(page_buf, out) == handle_page_loop(page_buf, page_buf, << >>, 0, out)

\* One turn of the loop of Wlog::read_all at offset pos; fetch_ok tells
\* whether State::get returns Ok.  The page buffer is zero-filled and appended
\* whole, whatever size the read returned; when the read fails nothing is
\* done and the loop goes on to the next page.
read_all_iter(file, pos, left_buf, out, fetch_ok) ==
    IF ~ fetch_ok
    THEN [ stop |-> FALSE, panic |-> FALSE, left_buf |-> left_buf, out |-> out ]
    ELSE LET got == state_get(file, pos)
             page_buf == got \o Zeros(PageSize - Len(got))
             r == handle_page(left_buf \o page_buf, out)
         IN  [ stop |-> r.panic \/ Len(got) < PageSize, panic |-> r.panic,
               left_buf |-> r.left_buf, out |-> r.out ]

\* Wlog::read_all on a storage whose reads all succeed
RECURSIVE read_all_loop(_, _, _, _)
read_all_loop(file, pos, left_buf, out) ==
    LET it == read_all_iter(file, pos, left_buf, out, TRUE)
    IN  IF it.stop
        THEN [ panic |-> it.panic, out |-> it.out ]
        ELSE read_all_loop(file, pos + PageSize, it.left_buf, it.out)

read_all(file) == read_all_loop(file, 0, << >>, << >>)

\* Wlog::get_latest_version: panics unless 8 bytes were read
get_latest_version(file) ==
    LET version_buf == state_get_from_end(file)
    IN  IF Len(version_buf) = VERSION_LEN
        THEN [ panic |-> FALSE, version |-> case_buf_to_u64(version_buf) ]
        ELSE [ panic |-> TRUE, version |-> 0 ]

\* a Wlog::append that advances the tracked size before the storage call
Wlog_append_counts_first(wl, file, buf, ok) ==
    LET bufs == entry_bufs(wl.file_size, buf)
    IN  [ res  |-> IF ok THEN "Ok" ELSE "Err",
          bufs |-> bufs,
          file |-> IF ok THEN file \o bufs ELSE file,
          wlog |-> [ wl EXCEPT !.file_size = @ + Len(bufs) ] ]

\* Wlog::append(buf) on the segment wl whose file holds `file`: all frames go
\* to storage in one append, and the tracked size advances when it succeeds
\* (ok); a failed storage append writes nothing.  The tracked size is a u32;
\* the sizes of the model stay below U32Mod, so the addition is exact.
Wlog_append(wl, file, buf, ok) ==
    LET bufs == entry_bufs(wl.file_size, buf)
    IN  [ res  |-> IF ok THEN "Ok" ELSE "Err",
          bufs |-> bufs,
          file |-> IF ok THEN file \o bufs ELSE file,
          wlog |-> IF ok THEN [ wl EXCEPT !.file_size = @ + Len(bufs) ] ELSE wl ]

\* ---- Wal: the log orchestrator -------------------------------------------
RECURSIVE sort(_)
sort(S) ==
    IF S = { } THEN << >>
    ELSE LET m == CHOOSE x \in S : \A y \in S : x <= y
         IN  << m >> \o sort(S \ { m })

\* Wal::get_log_versions: the ids of the files @wal-<id>, ascending; [0] if none
get_log_versions(fs) == IF DOMAIN fs = { } THEN << 0 >> ELSE sort(DOMAIN fs)

\* Wal::init_version; fs already holds the active segment's file
init_version(fs, list, active_wlog) ==
    LET length == Len(list)
    IN  IF length > 1 /\ active_wlog.file_size = 0
        THEN get_latest_version(state_new(fs, list[length - 1])[list[length - 1]])
        ELSE IF length = 1 /\ active_wlog.file_size = 0
        THEN [ panic |-> FALSE, version |-> 0 ]
        ELSE get_latest_version(fs[active_wlog.version])

\* Wal::new on the directory fs at time t: the fields of the new Wal, the
\* directory it leaves, and whether init_version(..).unwrap() panicked.
Wal_new(fs, t) ==
    LET list == get_log_versions(fs)
        id   == list[Len(list)]
        fs1  == state_new(fs, id)
        wl   == Wlog_new(fs, id)
        v    == init_version(fs1, list, wl)
    IN  [ panic |-> v.panic, files |-> fs1, seq |-> v.version, wlog |-> wl,
          log_version_list |-> list, rotation_time |-> t ]

\* Wal::rotation_log's condition
rotation_due(buf_len, file_size, t, rt) ==
    \/ buf_len + file_size > FileMaxSize
    \/ (RotationLiveTime > 0 /\ t - rt > RotationLiveTime)

\* Wal::append up to the storage call: the version assigned, the bytes
\* handed to Wlog::append, the rotation, and the bytes handed to storage.
Wal_append(data) ==
    LET version == seq + 1
        flate_buf == data \o case_u64_to_buf(version)
        rotate == rotation_due(Len(flate_buf), wlog.file_size, now, rotation_time)
        wl == IF rotate THEN Wlog_new(files, version) ELSE wlog
        fs == IF rotate THEN state_new(files, version) ELSE files
    IN  [ version |-> version, flate_buf |-> flate_buf, rotate |-> rotate,
          wlog |-> wl, files |-> fs,
          log_version_list |-> IF rotate THEN Append(log_version_list, version)
                               ELSE log_version_list,
          bufs |-> entry_bufs(wl.file_size, flate_buf) ]

\* a Wal::append that rolls seq back when the segment's append fails
seq_after_rollback(a, ok) == IF ok THEN a.version ELSE seq

\* Wal.seq when Wal::append returns: the increment is kept whether or not
\* the segment's append succeeded
seq_after(a, ok) == a.version

\* Wal::read_range over the segments of list, in list order
RECURSIVE read_segments(_, _, _, _, _)
read_segments(fs, list, min_version, scanned, out) ==
    IF list = << >> THEN [ panic |-> FALSE, scanned |-> scanned, out |-> out ]
    ELSE IF Head(list) < min_version
    THEN read_segments(fs, Tail(list), min_version, scanned, out)
    ELSE LET r == read_all(state_new(fs, Head(list))[Head(list)])
         IN  IF r.panic
             THEN [ panic |-> TRUE, scanned |-> Append(scanned, Head(list)), out |-> out \o r.out ]
             ELSE read_segments(fs, Tail(list), min_version,
                                Append(scanned, Head(list)), out \o r.out)

read_range(min_version) ==
    IF wlog.version = min_version
    THEN LET r == read_all(files[wlog.version])
         IN  [ panic |-> r.panic, scanned |-> << wlog.version >>, out |-> r.out ]
    ELSE read_segments(files, log_version_list, min_version, << >>, << >>)

\* a truncate_all that deletes the closed segments but not the active one
delete_all_closed(fs, list) ==
    [ i \in (DOMAIN fs) \ { list[j] : j \in 1 .. (Len(list) - 1) } |-> fs[i] ]

\* the files Wal::truncate_all leaves before it constructs the new Wal
RECURSIVE delete_all(_, _)
delete_all(fs, list) ==
    IF list = << >> THEN fs ELSE delete_all(state_remove(fs, Head(list)), Tail(list))

\* ---- inputs ----------------------------------------------------------------
Datas == { [ i \in 1 .. n |-> 3 ] : n \in 0 .. MaxData }
MinVersions == 0 .. MaxAppends
Cuts == 1 .. (2 * HEADER_LEN + VERSION_LEN + MaxData)

\* the callers of Wal::append
Callers == 1 .. MaxCallers

Max(a, b) == IF a >= b THEN a ELSE b

\* ---- the state machine -----------------------------------------------------
Init ==
    LET w == Wal_new(<< >>, 0)
    IN  /\ files = w.files
        /\ seq = w.seq
        /\ wlog = w.wlog
        /\ log_version_list = w.log_version_list
        /\ rotation_time = 0
        /\ now = 0
        /\ alive = TRUE
        /\ committed = << >>
        /\ clean = "clean"
        /\ closed = { }
        /\ nops = 0
        /\ ncrash = 0
        /\ failed = [ instance |-> 0, epoch |-> 0 ]
        /\ last = [ op |-> "new", panic |-> FALSE, was |-> "clean" ]
        /\ active_since = 0
        /\ scan = [ status |-> "idle" ]
        /\ pc = [ t \in Callers |-> "idle" ]
        /\ wlock = 0

\* what an append leaves in `last`
AppendInfo(a, data) ==
    [ version |-> a.version, data |-> data, buf_len |-> Len(a.flate_buf),
      rotate |-> a.rotate, seg |-> a.wlog.version, size_before |-> a.wlog.file_size,
      old_seg |-> wlog.version, old_size |-> wlog.file_size,
      seq_before |-> seq, was |-> clean ]

\* Wal::append(data); ok tells whether the storage append succeeds
\* (the model stops before seq + 1 overflows the counter's width)
Append_step(data, ok, limit) ==
    /\ alive
    /\ nops < limit
    /\ seq + 1 < U64Mod
    /\ LET a == Wal_append(data)
           id == a.wlog.version
           r == Wlog_append(a.wlog, a.files[id], a.flate_buf, ok)
       IN  /\ seq' = seq_after(a, ok)
           /\ log_version_list' = a.log_version_list
           /\ files' = [ a.files EXCEPT ![id] = r.file ]
           /\ wlog' = r.wlog
           /\ committed' = IF ok
                           THEN Append(committed, [ data |-> data, version |-> a.version, seg |-> id ])
                           ELSE committed
           /\ closed' = IF a.rotate THEN closed \cup { wlog.version } ELSE closed
           /\ failed' = IF ok THEN failed
                        ELSE [ instance |-> Max(failed.instance, a.version),
                               epoch    |-> Max(failed.epoch, a.version) ]
           /\ last' = [ op |-> "append", ok |-> ok ] @@ AppendInfo(a, data)
           /\ active_since' = IF a.rotate THEN now ELSE active_since
    /\ clean' = IF ok /\ clean = "clean" THEN "clean" ELSE "dirty"
    /\ nops' = nops + 1
    /\ UNCHANGED << rotation_time, now, alive, ncrash, procs >>

AppendOp(data, ok) == Append_step(data, ok, MaxAppends)

\* Wal::append(data) interrupted by a crash while storage writes the frames:
\* only the first cut bytes of the write reach the file (a torn last write).
CrashOp(data, cut) ==
    /\ alive
    /\ nops < MaxAppends
    /\ ncrash < MaxCrashes
    /\ seq + 1 < U64Mod
    /\ LET a == Wal_append(data)
           id == a.wlog.version
       IN  /\ cut < Len(a.bufs)
           /\ seq' = a.version
           /\ log_version_list' = a.log_version_list
           /\ files' = [ a.files EXCEPT ![id] = @ \o SubSeq(a.bufs, 1, cut) ]
           /\ wlog' = a.wlog
           /\ closed' = IF a.rotate THEN closed \cup { wlog.version } ELSE closed
           /\ last' = [ op |-> "crash", cut |-> cut ] @@ AppendInfo(a, data)
           /\ active_since' = IF a.rotate THEN now ELSE active_since
    /\ clean' = IF clean = "clean" THEN "torn" ELSE "dirty"
    /\ alive' = FALSE
    /\ nops' = nops + 1
    /\ ncrash' = ncrash + 1
    /\ UNCHANGED << rotation_time, now, committed, failed, procs >>

\* Wal::new(path) on the directory as it stands: a process (re)start
RestartOp ==
    /\ last.op # "new"
    /\ LET w == Wal_new(files, now)
       IN  /\ files' = w.files
           /\ seq' = w.seq
           /\ wlog' = w.wlog
           /\ log_version_list' = w.log_version_list
           /\ rotation_time' = w.rotation_time
           /\ alive' = ~ w.panic
           /\ last' = [ op |-> "new", panic |-> w.panic, was |-> clean ]
    /\ clean' = CASE clean = "clean" -> "reopened"
                  [] clean = "torn"  -> "torn"
                  [] OTHER           -> "dirty"
    /\ failed' = [ instance |-> 0, epoch |-> 0 ]
    /\ active_since' = now
    /\ UNCHANGED << now, committed, closed, nops, ncrash, procs >>

\* Wal::truncate_all()
TruncateOp ==
    /\ alive
    /\ last.op # "truncate"
    /\ LET w == Wal_new(delete_all(files, log_version_list), now)
       IN  /\ files' = w.files
           /\ seq' = w.seq
           /\ wlog' = w.wlog
           /\ log_version_list' = w.log_version_list
           /\ rotation_time' = w.rotation_time
           /\ alive' = ~ w.panic
           /\ last' = [ op |-> "truncate", panic |-> w.panic,
                        known |-> { log_version_list[i] : i \in DOMAIN log_version_list },
                        seq_before |-> seq ]
    /\ committed' = << >>
    /\ clean' = "clean"
    /\ closed' = { }
    /\ failed' = [ failed EXCEPT !.epoch = 0 ]
    /\ active_since' = now
    /\ UNCHANGED << now, nops, ncrash, procs >>

\* Wal::read_range(min_version, f); the handler records what it is given
ReadOp(min_version) ==
    /\ alive
    /\ LET r == read_range(min_version)
       IN  /\ alive' = ~ r.panic
           /\ last' = [ op |-> "read", min_version |-> min_version, panic |-> r.panic,
                        scanned |-> r.scanned, out |-> r.out, was |-> clean ]
    /\ UNCHANGED << files, seq, wlog, log_version_list, rotation_time, now,
                    committed, clean, closed, nops, ncrash, failed, active_since, procs >>

\* the clock advances by one second
Tick ==
    /\ now < MaxTime
    /\ now' = now + 1
    /\ UNCHANGED << files, seq, wlog, log_version_list, rotation_time, alive,
                    committed, clean, closed, nops, ncrash, failed, last,
                    active_since, procs >>

\* The log without crashes: appends that succeed or fail, restarts,
\* truncations, reads and the passing of time.
Next ==
    \/ \E data \in Datas, ok \in BOOLEAN : AppendOp(data, ok)
    \/ RestartOp
    \/ TruncateOp
    \/ \E min_version \in MinVersions : ReadOp(min_version)
    \/ Tick

Spec == Init /\ [][Next]_vars

\* The log with crashes that tear the last write, all within one second.
NextCrash ==
    \/ \E data \in Datas, ok \in BOOLEAN : AppendOp(data, ok)
    \/ \E data \in Datas, cut \in Cuts : CrashOp(data, cut)
    \/ RestartOp
    \/ TruncateOp
    \/ \E min_version \in MinVersions : ReadOp(min_version)

SpecCrash == Init /\ [][NextCrash]_vars

\* Appends and restarts only, followed further than Spec does.
NextDeep ==
    \/ \E data \in Datas, ok \in BOOLEAN : Append_step(data, ok, MaxDeepAppends)
    \/ RestartOp

SpecDeep == Init /\ [][NextDeep]_vars

\* ---- Wal::append statement by statement, with its callers ---------------------
\* A caller enters Wal::append(&mut self, buf): the exclusive borrow admits
\* one caller at a time.
AppendCall(t, data) ==
    /\ alive
    /\ nops < MaxAppends
    /\ \A u \in Callers : pc[u] = "idle"
    /\ pc' = [ pc EXCEPT ![t] = "lock" ]
    /\ last' = [ op |-> "call", caller |-> t, data |-> data, flate_buf |-> data ]
    /\ nops' = nops + 1
    /\ UNCHANGED << files, seq, wlog, log_version_list, rotation_time, now, alive,
                    committed, clean, closed, ncrash, failed, active_since, scan, wlock >>

\* self.wlock.lock(): the mutex is acquired ...
AppendLock(t) ==
    /\ pc[t] = "lock"
    /\ wlock = 0
    /\ wlock' = t
    /\ pc' = [ pc EXCEPT ![t] = "drop" ]
    /\ UNCHANGED << files, seq, wlog, log_version_list, rotation_time, now, alive,
                    committed, clean, closed, nops, ncrash, failed, last, active_since, scan >>

\* ... and its guard, a temporary bound to no name, is dropped at the end
\* of the same statement
AppendGuardDrop(t) ==
    /\ pc[t] = "drop"
    /\ wlock' = 0
    /\ pc' = [ pc EXCEPT ![t] = "incr" ]
    /\ UNCHANGED << files, seq, wlog, log_version_list, rotation_time, now, alive,
                    committed, clean, closed, nops, ncrash, failed, last, active_since, scan >>

\* self.seq += 1 and the suffix
AppendIncr(t) ==
    /\ pc[t] = "incr"
    /\ seq + 1 < U64Mod
    /\ seq' = seq + 1
    /\ last' = [ last EXCEPT !.flate_buf = last.data \o case_u64_to_buf(seq + 1) ]
    /\ pc' = [ pc EXCEPT ![t] = "rotate" ]
    /\ UNCHANGED << files, wlog, log_version_list, rotation_time, now, alive,
                    committed, clean, closed, nops, ncrash, failed, active_since, scan, wlock >>

\* self.rotation_log(flate_buf.len())
AppendRotate(t) ==
    /\ pc[t] = "rotate"
    /\ LET rotate == rotation_due(Len(last.flate_buf), wlog.file_size, now, rotation_time)
       IN  /\ log_version_list' = IF rotate THEN Append(log_version_list, seq)
                                   ELSE log_version_list
           /\ wlog' = IF rotate THEN Wlog_new(files, seq) ELSE wlog
           /\ files' = IF rotate THEN state_new(files, seq) ELSE files
           /\ closed' = IF rotate THEN closed \cup { wlog.version } ELSE closed
           /\ active_since' = IF rotate THEN now ELSE active_since
    /\ pc' = [ pc EXCEPT ![t] = "write" ]
    /\ UNCHANGED << seq, rotation_time, now, alive, committed, clean, nops, ncrash,
                    failed, last, scan, wlock >>

\* self.wlog.append(&flate_buf), and the return
AppendWrite(t, ok) ==
    /\ pc[t] = "write"
    /\ LET id == wlog.version
           r == Wlog_append(wlog, files[id], last.flate_buf, ok)
       IN  /\ files' = [ files EXCEPT ![id] = r.file ]
           /\ wlog' = r.wlog
           /\ committed' = IF ok
                           THEN Append(committed, [ data |-> last.data, version |-> seq, seg |-> id ])
                           ELSE committed
           /\ last' = [ op |-> "return", caller |-> t, data |-> last.data,
                        flate_buf |-> last.flate_buf, ok |-> ok ]
    /\ clean' = IF ok /\ clean = "clean" THEN "clean" ELSE "dirty"
    /\ pc' = [ pc EXCEPT ![t] = "idle" ]
    /\ UNCHANGED << seq, log_version_list, rotation_time, now, alive, closed, nops,
                    ncrash, failed, active_since, scan, wlock >>

NextLock ==
    \/ \E t \in Callers, data \in Datas : AppendCall(t, data)
    \/ \E t \in Callers : AppendLock(t)
    \/ \E t \in Callers : AppendGuardDrop(t)
    \/ \E t \in Callers : AppendIncr(t)
    \/ \E t \in Callers : AppendRotate(t)
    \/ \E t \in Callers, ok \in BOOLEAN : AppendWrite(t, ok)

SpecLock == Init /\ [][NextLock]_vars

\* ---- the frame codec on its own ---------------------------------------------
PayloadBytes == { 0, 3, ByteMod - 1 }
Payloads == UNION { [ 1 .. n -> PayloadBytes ] : n \in 0 .. MaxPayload }
Stypes == { STYPE_FULL, STYPE_FIRST, STYPE_MIDDLE, STYPE_LAST }

\* Entry::decode applied to Entry::new(stype, payload).encode(), or to that
\* buffer with another checksum stored in its header
DecodeOp(stype, payload, corrupt) ==
    /\ LET e == Entry_new(stype, payload)
           stored == IF corrupt THEN (e.header.crc32 + 1) % U32Mod ELSE e.header.crc32
           buf == Entry_encode([ e EXCEPT !.header.crc32 = stored ])
       IN  last' = [ op |-> "decode", stype |-> stype, payload |-> payload,
                     stored |-> stored, dec |-> Entry_decode(buf) ]
    /\ UNCHANGED << files, seq, wlog, log_version_list, rotation_time, now, alive,
                    committed, clean, closed, nops, ncrash, failed, active_since, procs >>

NextCodec == \E stype \in Stypes, payload \in Payloads, corrupt \in BOOLEAN :
                DecodeOp(stype, payload, corrupt)

SpecCodec == Init /\ [][NextCodec]_vars

\* ---- the fragmentation of one segment append on its own ---------------------
SegSizes == 0 .. (2 * PageSize)
SegBufLens == { 0, 1, VERSION_LEN, VERSION_LEN + MaxData, PageSize, 2 * PageSize + 1 }
SegBufs == { [ i \in 1 .. n |-> 3 ] : n \in SegBufLens }
               \cup { [ i \in 1 .. n |-> i % ByteMod ] : n \in SegBufLens }

\* Wlog::append(buf) on a segment whose tracked size is file_size
SegmentOp(file_size, buf) ==
    /\ last' = [ op |-> "segment", size_before |-> file_size, buf |-> buf,
                 frames |-> Fragment(file_size, buf, 0),
                 bufs |-> entry_bufs(file_size, buf) ]
    /\ UNCHANGED << files, seq, wlog, log_version_list, rotation_time, now, alive,
                    committed, clean, closed, nops, ncrash, failed, active_since, procs >>

NextSegment == \E file_size \in SegSizes, buf \in SegBufs : SegmentOp(file_size, buf)

SpecSegment == Init /\ [][NextSegment]_vars

\* ---- one segment on its own: appends, reopening and the recovery scan -------
\* record lengths that stay inside a page, fill it exactly, and span two and
\* three pages; the bytes differ from one position to the next
WlogDataLens == { 0, 1, PageSize - VERSION_LEN, PageSize, 2 * PageSize }
WlogDatas == { [ i \in 1 .. n |-> i % ByteMod ] : n \in WlogDataLens }

\* Wlog::append(data ++ suffix) on the active segment, called directly
WlogAppendOp(data, ok) ==
    /\ alive
    /\ scan.status = "idle"
    /\ nops < MaxWlogAppends
    /\ LET version == nops + 1
           id == wlog.version
           r == Wlog_append(wlog, files[id], data \o case_u64_to_buf(version), ok)
       IN  /\ files' = [ files EXCEPT ![id] = r.file ]
           /\ wlog' = r.wlog
           /\ committed' = IF ok
                           THEN Append(committed, [ data |-> data, version |-> version, seg |-> id ])
                           ELSE committed
           /\ last' = [ op |-> "wappend", ok |-> ok, data |-> data, version |-> version,
                        size_before |-> wlog.file_size, len_before |-> Len(files[id]),
                        written |-> IF ok THEN Len(r.bufs) ELSE 0,
                        fails |-> nops - Len(committed) ]
    /\ nops' = nops + 1
    /\ UNCHANGED << seq, log_version_list, rotation_time, now, alive, clean, closed,
                    ncrash, failed, active_since, procs >>

\* Wlog::new on the segment's file as it stands
WlogNewOp ==
    /\ alive
    /\ last.op = "wappend"
    /\ wlog' = Wlog_new(files, wlog.version)
    /\ last' = [ op |-> "wnew", size_before |-> wlog.file_size ]
    /\ UNCHANGED << files, seq, log_version_list, rotation_time, now, alive, committed,
                    clean, closed, nops, ncrash, failed, active_since, procs >>

\* Wlog::read_all(f) on the segment; the handler records what it is given
WlogReadOp ==
    /\ alive
    /\ LET r == read_all(files[wlog.version])
       IN  /\ alive' = ~ r.panic
           /\ last' = [ op |-> "read_all", panic |-> r.panic, out |-> r.out,
                        size |-> Len(files[wlog.version]) ]
    /\ UNCHANGED << files, seq, wlog, log_version_list, rotation_time, now,
                    committed, clean, closed, nops, ncrash, failed, active_since, procs >>

\* the width of usize, scaled: larger than any file of the model
UsizeMod == PageSize * (4 * MaxWlogAppends + 1)

\* Wlog::read_all(f) is called on the segment
ScanStart ==
    /\ alive
    /\ scan.status = "idle"
    /\ scan' = [ status |-> "running", pos |-> 0, left_buf |-> << >>, out |-> << >>,
                 broken |-> FALSE ]
    /\ UNCHANGED << files, seq, wlog, log_version_list, rotation_time, now, alive,
                    committed, clean, closed, nops, ncrash, failed, last,
                    active_since, pc, wlock >>

\* One turn of the loop of Wlog::read_all.  The storage's read succeeds
\* (fetch_ok) or fails; once it has failed it keeps failing.  When pos +=
\* page_size overflows usize, a build with overflow checks aborts and one
\* without them wraps (wraps).
ScanStep(fetch_ok, wraps) ==
    /\ alive
    /\ scan.status = "running"
    /\ scan.broken => ~ fetch_ok
    /\ LET it == read_all_iter(files[wlog.version], scan.pos, scan.left_buf, scan.out, fetch_ok)
           next_pos == scan.pos + PageSize
           aborts == it.panic \/ (~ it.stop /\ next_pos >= UsizeMod /\ ~ wraps)
       IN  /\ scan' = [ status   |-> IF aborts THEN "panic"
                                     ELSE IF it.stop THEN "done" ELSE "running",
                        pos      |-> IF it.stop THEN scan.pos ELSE next_pos % UsizeMod,
                        left_buf |-> it.left_buf,
                        out      |-> it.out,
                        broken   |-> ~ fetch_ok ]
           /\ alive' = ~ aborts
    /\ UNCHANGED << files, seq, wlog, log_version_list, rotation_time, now,
                    committed, clean, closed, nops, ncrash, failed, last,
                    active_since, pc, wlock >>

\* A segment that is appended to and then scanned page by page; the scan,
\* once called, keeps running (the call has no suspension point).
NextScan ==
    \/ \E data \in WlogDatas, ok \in BOOLEAN : WlogAppendOp(data, ok)
    \/ ScanStart
    \/ \E fetch_ok \in BOOLEAN, wraps \in BOOLEAN : ScanStep(fetch_ok, wraps)

SpecScan ==
    /\ Init
    /\ [][NextScan]_vars
    /\ WF_vars(\E fetch_ok \in BOOLEAN, wraps \in BOOLEAN : ScanStep(fetch_ok, wraps))

NextWlog ==
    \/ \E data \in WlogDatas, ok \in BOOLEAN : WlogAppendOp(data, ok)
    \/ WlogNewOp
    \/ WlogReadOp

SpecWlog == Init /\ [][NextWlog]_vars

\* ---- what the claims speak about -------------------------------------------
\* the records of the successful appends, as read_range(0) should deliver them
Expected(recs) == [ i \in DOMAIN recs |-> [ data |-> recs[i].data, version |-> recs[i].version ] ]

CommittedVersions == { committed[i].version : i \in DOMAIN committed }

ListIds(list) == { list[i] : i \in DOMAIN list }

\* C1: on a log that started empty, after N successful appends (and nothing
\* else), read_range(0) runs to completion and hands the handler exactly the
\* N records, the i-th with the bytes of the i-th append and version i.
C1_ReadAfterAppends ==
    (last.op = "read" /\ last.was = "clean" /\ last.min_version = 0)
        => /\ ~ last.panic
           /\ Len(last.out) = Len(committed)
           /\ \A i \in DOMAIN committed :
                last.out[i] = [ data |-> committed[i].data, version |-> i ]

\* C2: a Wal constructed on the directory left by M successful appends on a
\* log that started empty recovers seq = M (the next append gets M + 1).
C2_RestartRecoversSeq ==
    (last.op = "new" /\ last.was = "clean")
        => (~ last.panic /\ seq = Len(committed))

\* C3: without truncate_all, seq never decreases, and an append never assigns
\* a version that a successful append already committed to disk.
C3_SeqMonotonic ==
    [][ /\ (last'.op # "truncate" => seq' >= seq)
        /\ (nops' # nops => seq' \notin CommittedVersions) ]_vars

\* The second half of C3 alone: an append never assigns a version that a
\* successful append already committed to disk.
C3_NoVersionReuse ==
    [][ nops' # nops => seq' \notin CommittedVersions ]_vars

\* C4: when the last write of the log was torn (cut inside its frames),
\* read_all runs to completion and delivers exactly the records written
\* before the torn one.
C4_TornWriteTolerated ==
    (last.op = "read" /\ last.was = "torn" /\ last.min_version = 0)
        => (~ last.panic /\ last.out = Expected(committed))

\* C5 as stated: a failed append keeps the incremented seq, and every later
\* successful append of the same Wal gets a version greater than the one the
\* failed call consumed.
C5_FailedAppendKeepsSeq ==
    /\ (last.op = "append" /\ ~ last.ok) => (seq = last.seq_before + 1 /\ seq = last.version)
    /\ (last.op = "append" /\ last.ok) => last.version > failed.instance

\* C5 amended: a failed append keeps the incremented seq, and every later
\* successful append of the same Wal gets a greater version than the failed
\* call consumed, as long as truncate_all was not called in between.
C5_FailedAppendNoRepeat ==
    /\ (last.op = "append" /\ ~ last.ok) => (seq = last.seq_before + 1 /\ seq = last.version)
    /\ (last.op = "append" /\ last.ok) => last.version > failed.epoch

\* a successful append that follows a failed one on the same Wal
C5_Witness ==
    last.op = "append" /\ last.ok /\ failed.epoch > 0

\* C6: an append that finds buf_len + tracked size > file_max_size writes its
\* record to a segment named by the seq just assigned, which is the active
\* segment and is in the segment-id list; and no step appends bytes to a
\* segment that has been rotated away.
C6_SizeRotation ==
    [][ /\ (last'.op = "append" /\ nops' # nops
              /\ last'.buf_len + last'.old_size > FileMaxSize)
            => /\ last'.rotate
               /\ last'.seg = last'.version
               /\ wlog'.version = last'.version
               /\ last'.version \in ListIds(log_version_list')
               /\ last'.ok =>
                    files'[last'.seg] = state_new(files, last'.seg)[last'.seg]
                        \o entry_bufs(last'.size_before, last'.data \o case_u64_to_buf(last'.version))
        /\ \A id \in closed' : id \in DOMAIN files => files'[id] = files[id] ]_vars

\* C7: truncate_all deletes every known segment file and leaves the Wal as
\* one constructed on an empty path; read_range(0) then delivers nothing and
\* the next append gets version 1.
C7_TruncateAllResets ==
    last.op = "truncate"
        => /\ ~ last.panic
           /\ files = (0 :> << >>)
           /\ seq = 0
           /\ log_version_list = << 0 >>
           /\ wlog = [ version |-> 0, file_size |-> 0 ]
           /\ read_range(0) = [ panic |-> FALSE, scanned |-> << 0 >>, out |-> << >> ]
           /\ \A data \in Datas : Wal_append(data).version = 1

\* truncate_all was called on a log of several segments that held records
C7_Witness ==
    /\ last.op = "truncate"
    /\ Cardinality(last.known) >= 2
    /\ last.seq_before >= 2

\* C8: a read_range that runs to completion scans only the active segment
\* when its id is min_version, and otherwise the known segments of id >=
\* min_version, each once, in ascending order.
C8_ReadRangeScans ==
    (last.op = "read" /\ ~ last.panic)
        => last.scanned =
             IF wlog.version = last.min_version THEN << wlog.version >>
             ELSE sort({ id \in ListIds(log_version_list) : id >= last.min_version })

\* C9: decode(encode(kind, payload)) succeeds with the payload and its
\* checksum, and decode fails with InvalidWalData exactly when the checksum
\* of the payload differs from the stored one.
C9_CodecRoundTrip ==
    last.op = "decode"
        => /\ (last.stored = checksum(last.payload))
                => /\ last.dec.res = "Ok"
                   /\ last.dec.payload = last.payload
                   /\ last.dec.header.crc32 = checksum(last.payload)
           /\ (last.dec.res = "Err") <=> (last.stored # checksum(last.payload))

\* the file offset after the first k frames of a segment append
RECURSIVE OffsetAfter(_, _, _)
OffsetAfter(start, frames, k) ==
    IF k = 0 THEN start
    ELSE OffsetAfter(start, frames, k - 1) + HEADER_LEN + Len(frames[k].payload)

\* C10: the file offset reached after each First or Middle frame of a
\* segment append is a multiple of the page size.
C10_PageAligned ==
    last.op = "segment"
        => \A k \in DOMAIN last.frames :
             last.frames[k].header.stype \in { STYPE_FIRST, STYPE_MIDDLE }
               => OffsetAfter(last.size_before, last.frames, k) % PageSize = 0

\* C11: on a segment that only successful appends have written, of any size,
\* read_all runs to completion and delivers every appended record once, in
\* append order, with its bytes and its version.
C11_MultiPageRecovery ==
    last.op = "read_all"
        => (~ last.panic /\ last.out = Expected(committed))

\* the payloads of the frames, concatenated in emission order
RECURSIVE ConcatPayloads(_)
ConcatPayloads(frames) ==
    IF frames = << >> THEN << >>
    ELSE Head(frames).payload \o ConcatPayloads(Tail(frames))

\* C12: the payloads of the frames of one segment append, concatenated in
\* emission order, are exactly the input bytes, and every frame's length
\* field is the length of its payload.
C12_FragmentationCorrect ==
    last.op = "segment"
        => /\ ConcatPayloads(last.frames) = last.buf
           /\ \A k \in DOMAIN last.frames :
                last.frames[k].header.dlen = Len(last.frames[k].payload)
           /\ last.bufs = EncodeAll(last.frames)

\* an append of bytes that differ from each other, split over three frames
C12_Witness ==
    /\ last.op = "segment"
    /\ Len(last.frames) >= 3
    /\ \E i, j \in DOMAIN last.buf : last.buf[i] # last.buf[j]

\* C13: the loop of a segment append ends, after at most one frame per page
\* touched, and emits either one Full frame, or a First frame, then Middle
\* frames, then one Last frame; also when the input fills the page exactly.
C13_FrameKinds ==
    last.op = "segment"
        => LET n == Len(last.frames)
               kind(k) == last.frames[k].header.stype
           IN  /\ n >= 1
               /\ n <= (Len(last.buf) \div PageSize) + 2
               /\ \/ n = 1 /\ kind(1) = STYPE_FULL
                  \/ /\ n >= 2
                     /\ kind(1) = STYPE_FIRST
                     /\ kind(n) = STYPE_LAST
                     /\ \A k \in 2 .. (n - 1) : kind(k) = STYPE_MIDDLE

\* an append whose input fills the remaining page space exactly, and one
\* that needs a Middle frame, have been made
C13_Witness ==
    /\ last.op = "segment"
    /\ Len(last.buf) = PageSize - (last.size_before % PageSize)
    /\ Len(last.frames) = 2
    /\ last.frames[2].payload = << >>

C15_TailErrorRecoverable ==
    last.op \in { "new", "truncate" } => (~ last.panic /\ alive)

\* C16: an append whose size limit is not exceeded rotates only if more than
\* rotation_live_time has passed since the active segment became active (the
\* last rotation, or the construction of the Wal if there was none); so an
\* append right after a rotation does not rotate again.
C16_AgeRotation ==
    [][ (last'.op = "append" /\ nops' # nops /\ last'.rotate
           /\ last'.buf_len + last'.old_size <= FileMaxSize)
          => now - active_since > RotationLiveTime ]_vars

\* C17: a read_all that has been called stops, whatever the storage does.
C17_ReadAllTerminates ==
    (scan.status = "running") ~> (scan.status # "running")

\* C18: while a caller of Wal::append is between the increment of seq and
\* the return of the segment's write it holds wlock, and no two callers are
\* inside append at once.
C18_WriterLockHeld ==
    /\ \A t \in Callers : pc[t] \in { "incr", "rotate", "write" } => wlock = t
    /\ \A t, u \in Callers : (t # u /\ pc[t] # "idle") => pc[u] = "idle"

\* C19: on a log that only successful appends have written, a read_range
\* that runs to completion hands the handler every committed record whose
\* version is at least min_version, whatever the segment that holds it.
C19_RangeReadComplete ==
    (last.op = "read" /\ last.was = "clean" /\ ~ last.panic)
        => \A i \in DOMAIN committed :
             committed[i].version >= last.min_version
               => \E j \in DOMAIN last.out :
                    last.out[j] = [ data |-> committed[i].data,
                                    version |-> committed[i].version ]

\* C20: the segment-id list is strictly ascending and ends with the id of
\* the active segment.
C20_SegmentIdsAscending ==
    alive => /\ \A i \in 1 .. (Len(log_version_list) - 1) :
                  log_version_list[i] < log_version_list[i + 1]
             /\ log_version_list[Len(log_version_list)] = wlog.version

====
